---- MODULE Spec2Model ----
(***************************************************************************)
(* Rooms18gate: the "rooms" file-sharing application, in the twelve        *)
(* variants the repository holds.                                          *)
(*                                                                         *)
(* A string is a sequence of one-character strings, so that trimming,      *)
(* lower-casing, the room-name pattern, path.join, path.basename and       *)
(* String.startsWith are computed character by character.  The file system *)
(* is a set of directory paths and a function from file paths to file      *)
(* records.  One server runs one variant; a request is handled atomically  *)
(* (the sequential reading of the handlers).                               *)
(***************************************************************************)
EXTENDS Integers, Sequences, FiniteSets, TLC

(***************************************************************************)
(* Strings                                                                 *)
(***************************************************************************)
EMPTY == << >>

SLASH == <<"/">>

DOT == <<".">>

DOTDOT == <<".", ".">>

\* the characters [a-z0-9-] that occur in the model's inputs
RoomChars == {"a", "b", "c", "d", "e", "f", "g", "j", "k", "l", "m", "n", "p", "s", "t",
              "w", "x", "y", "0", "1", "2", "3", "4", "5", "6", "7", "8", "9", "-"}

\* \w = [A-Za-z0-9_]
WordChars == (RoomChars \ {"-"}) \cup {"A", "B", "_"}

\* \s
SpaceChars == {" "}

toLowerCase(s) ==
    [i \in 1..Len(s) |-> IF s[i] = "A" THEN "a" ELSE IF s[i] = "B" THEN "b" ELSE s[i]]

RECURSIVE trimStart(_)
trimStart(s) == IF s # EMPTY /\ Head(s) \in SpaceChars THEN trimStart(Tail(s)) ELSE s

RECURSIVE trimEnd(_)
trimEnd(s) ==
    IF s # EMPTY /\ s[Len(s)] \in SpaceChars THEN trimEnd(SubSeq(s, 1, Len(s) - 1)) ELSE s

trim(s) == trimEnd(trimStart(s))

startsWith(s, prefix) ==
    /\ Len(prefix) <= Len(s)
    /\ SubSeq(s, 1, Len(prefix)) = prefix

slice0(s, n) == SubSeq(s, 1, IF Len(s) < n THEN Len(s) ELSE n)

sliceLast(s, n) == IF Len(s) <= n THEN s ELSE SubSeq(s, Len(s) - n + 1, Len(s))

\* String.split("/")
RECURSIVE Split(_)
Split(s) ==
    IF \A i \in 1..Len(s) : s[i] # "/"
    THEN <<s>>
    ELSE LET k == CHOOSE i \in 1..Len(s) : s[i] = "/" /\ \A j \in 1..(i - 1) : s[j] # "/"
         IN  <<SubSeq(s, 1, k - 1)>> \o Split(SubSeq(s, k + 1, Len(s)))

RECURSIVE JoinWith(_, _)
JoinWith(segs, sep) ==
    IF segs = << >> THEN EMPTY
    ELSE IF Len(segs) = 1 THEN segs[1]
    ELSE segs[1] \o sep \o JoinWith(Tail(segs), sep)

(***************************************************************************)
(* node:path (posix)                                                       *)
(***************************************************************************)
\* normalizeString: resolves "." and ".." segments, drops empty segments
RECURSIVE ResolveSegs(_, _, _)
ResolveSegs(segs, stack, abs) ==
    IF segs = << >> THEN stack
    ELSE LET g == Head(segs) IN
         IF g = EMPTY \/ g = DOT THEN ResolveSegs(Tail(segs), stack, abs)
         ELSE IF g = DOTDOT
              THEN IF stack # << >> /\ stack[Len(stack)] # DOTDOT
                   THEN ResolveSegs(Tail(segs), SubSeq(stack, 1, Len(stack) - 1), abs)
                   ELSE IF abs THEN ResolveSegs(Tail(segs), stack, abs)
                        ELSE ResolveSegs(Tail(segs), Append(stack, g), abs)
              ELSE ResolveSegs(Tail(segs), Append(stack, g), abs)

normalize(p) ==
    IF p = EMPTY THEN DOT
    ELSE LET abs   == p[1] = "/"
             trail == p[Len(p)] = "/"
             body  == JoinWith(ResolveSegs(Split(p), << >>, abs), SLASH)
         IN  IF body = EMPTY
             THEN IF abs THEN SLASH ELSE IF trail THEN <<".", "/">> ELSE DOT
             ELSE (IF abs THEN SLASH ELSE EMPTY) \o body \o (IF trail THEN SLASH ELSE EMPTY)

\* path.join(...parts): the non-empty parts joined by "/", then normalized
join(parts) ==
    LET ne == SelectSeq(parts, LAMBDA x : x # EMPTY)
    IN  IF ne = << >> THEN DOT ELSE normalize(JoinWith(ne, SLASH))

RECURSIVE stripTrailingSlashes(_)
stripTrailingSlashes(p) ==
    IF p # EMPTY /\ p[Len(p)] = "/" THEN stripTrailingSlashes(SubSeq(p, 1, Len(p) - 1)) ELSE p

\* path.basename(p)
basename(p) ==
    LET q == stripTrailingSlashes(p)
    IN  IF q = EMPTY THEN EMPTY ELSE LET segs == Split(q) IN segs[Len(segs)]

\* path.dirname(p) of a normalized absolute path
dirname(p) ==
    LET segs == Split(p)
        d    == JoinWith(SubSeq(segs, 1, Len(segs) - 1), SLASH)
    IN  IF d = EMPTY THEN SLASH ELSE d

(***************************************************************************)
(* Configuration.  __dirname is the directory that holds the running       *)
(* script; every variant keeps its data root directly below it             *)
(* (path.join(__dirname, "data") or path.join(__dirname, "uploads")).      *)
(***************************************************************************)
Variants == {"part_000", "part_001a", "part_001b", "part_002", "part_003a", "part_003b",
             "app_1", "app_2", "app_3", "app_4", "src_app_1", "src_app_2"}

dirnameOfScript == <<"/", "s">>

\* the script itself, a file of __dirname
ScriptFile == <<"/", "s", "/", "j">>

\* DATA_DIR / UPLOAD_DIR / DATA / UPLOADS / UPLOAD_ROOT
DATA_DIR == join(<<dirnameOfScript, <<"d">>>>)

\* process.env.ADMIN_PASS || "letmein"
ADMIN_PASS == <<"p", "w">>

\* the largest upload multer accepts, in the model's size unit (1 = one MiB)
MAX_FILE_MB == 25

MAX_UPLOAD_MB == 50

\* /^[a-z0-9-]{1,40}$/
MaxRoomLen == 40

(***************************************************************************)
(* node:fs over (D, F): D the set of directories, F the files              *)
(***************************************************************************)
RECURSIVE Ancestors(_)
Ancestors(p) == IF p = SLASH THEN {} ELSE {dirname(p)} \cup Ancestors(dirname(p))

IsUnder(p, d) == p # d /\ d \in Ancestors(p)

existsSync(D, F, p) == p \in D \/ p \in DOMAIN F

\* fs.mkdir(p, {recursive: true}): fails when a file is in the way
mkdirOk(D, F, p) == \A q \in {p} \cup Ancestors(p) : q \notin DOMAIN F

mkdirRecursive(D, F, p) == IF mkdirOk(D, F, p) THEN D \cup {p} \cup Ancestors(p) ELSE D

\* fs.readdir(p): the names of the entries of directory p
readdir(D, F, p) == {basename(q) : q \in {e \in D \cup DOMAIN F : e # SLASH /\ dirname(e) = p}}

\* the same readdir filtered by isDirectory()
readdirDirectories(D, F, p) == {basename(q) : q \in {e \in D : e # SLASH /\ dirname(e) = p}}

\* fs.readdir(p, {withFileTypes: true}) filtered by isFile()
readdirFiles(D, F, p) == {basename(q) : q \in {e \in DOMAIN F : dirname(e) = p}}

\* fs.rm(p, {recursive: true, force: true})
rmDirs(D, p) == {q \in D : q # p /\ ~IsUnder(q, p)}

rmFiles(F, p) == [q \in {e \in DOMAIN F : e # p /\ ~IsUnder(e, p)} |-> F[q]]

\* fs.unlink(p): removes a file; fails (ENOENT, EISDIR) on anything else
unlinkFiles(F, p) == [q \in DOMAIN F \ {p} |-> F[q]]

\* the write of an uploaded file (fs.createWriteStream(path), flags "w")
writeFile(F, p, rec) == [q \in DOMAIN F \cup {p} |-> IF q = p THEN rec ELSE F[q]]

(***************************************************************************)
(* Responses and handler results                                           *)
(***************************************************************************)
NoData == "-"

Resp(status, kind, loc, data) ==
    [status |-> status, kind |-> kind, loc |-> loc, data |-> data, list |-> << >>,
     url |-> EMPTY, links |-> {}]

\* the result of a handler: the file system after it, the response, the fs calls made
Out(D, F, resp, calls) == [dirs |-> D, files |-> F, resp |-> resp, calls |-> calls]

Call(op, p) == <<op, p>>

(***************************************************************************)
(* Room-name sanitizers                                                    *)
(***************************************************************************)
\* /^[a-z0-9-]{1,40}$/.test(s)
MatchesRoomPattern(s) ==
    /\ Len(s) >= 1
    /\ Len(s) <= MaxRoomLen
    /\ \A i \in 1..Len(s) : s[i] \in RoomChars

\* part_001 (both variants), app.js variant 1: reject, never repair
sanitizeRoom(name) ==
    LET clean == toLowerCase(trim(name))
    IN  IF MatchesRoomPattern(clean) THEN clean ELSE EMPTY

\* .replace(/\s+/g, "-"): every run of white space becomes one dash
RECURSIVE replaceSpaceRuns(_)
replaceSpaceRuns(s) ==
    IF s = EMPTY THEN EMPTY
    ELSE IF Head(s) \in SpaceChars
         THEN <<"-">> \o replaceSpaceRuns(trimStart(s))
         ELSE <<Head(s)>> \o replaceSpaceRuns(Tail(s))

\* part_000: repairs the name instead of rejecting it
P0_sanitizeRoom(name) ==
    slice0(SelectSeq(replaceSpaceRuns(trim(toLowerCase(name))), LAMBDA c : c \in RoomChars),
           MaxRoomLen)

\* src/app.js variant 1: path.basename, then every char outside [\w.-] becomes "_"
safeBase(p) ==
    LET b == basename(p)
    IN  [i \in 1..Len(b) |-> IF b[i] \in WordChars \cup {".", "-"} THEN b[i] ELSE "_"]

\* part_003 (both variants), src/app.js variant 2: no trim, no lower-casing
isValidRoom(name) == MatchesRoomPattern(name)

\* file.originalname.replace(/[^\w.\-]+/g, "_").slice(-100)
RECURSIVE replaceUnsafeRuns(_)
replaceUnsafeRuns(s) ==
    IF s = EMPTY THEN EMPTY
    ELSE IF Head(s) \in WordChars \cup {".", "-"}
         THEN <<Head(s)>> \o replaceUnsafeRuns(Tail(s))
         ELSE IF Len(s) > 1 /\ s[2] \notin WordChars \cup {".", "-"}
              THEN replaceUnsafeRuns(Tail(s))
              ELSE <<"_">> \o replaceUnsafeRuns(Tail(s))

(***************************************************************************)
(* Requests.  A request carries the decoded :room and :name URL segments   *)
(* (Express decodes %2F and %2E, so a segment may hold "/" and ".."), the  *)
(* body fields, the admin cookie the client chooses to send, the admin     *)
(* token of the query string or body, the age cookies of the client's jar, *)
(* and the multipart file part.                                            *)
(***************************************************************************)
NoFile == [data |-> NoData, size |-> 0, mimetype |-> "-", originalname |-> EMPTY]

hasFile(r) == r.file # NoFile

\* the scope of the site-wide age cookie "age_ok"
GLOBAL == <<"*">>

\* mime.extension(type): false for a type the table does not know
mimeExtension(type) == IF type = "image/png" THEN <<"p", "n", "g">> ELSE EMPTY

\* path.extname(name): from the last "." to the end, "" when there is none
extname(name) ==
    LET b    == basename(name)
        dots == {i \in 2..Len(b) : b[i] = "."}
    IN  IF dots = {} THEN EMPTY
        ELSE LET k == CHOOSE i \in dots : \A j \in dots : j <= i IN SubSeq(b, k, Len(b))

\* Date.now() as one digit
DateNow(now) == <<ToString(now)>>

fileRecord(r) == [data |-> r.file.data, size |-> r.file.size, mtime |-> r.now]

\* fs.stat(p): size and mtime; a directory has no content of its own
statOf(D, F, p) ==
    IF p \in DOMAIN F THEN [size |-> F[p].size, mtime |-> F[p].mtime]
    ELSE [size |-> 0, mtime |-> 0]

\* Array.sort((a, b) => b.mtime - a.mtime)
RECURSIVE sortNewestFirst(_)
sortNewestFirst(S) ==
    IF S = {} THEN << >>
    ELSE LET m == CHOOSE e \in S : \A o \in S : e.mtime >= o.mtime
         IN  <<m>> \o sortNewestFirst(S \ {m})

entryOf(D, F, dir, n) ==
    LET st == statOf(D, F, join(<<dir, n>>))
    IN  [name |-> n, size |-> st.size, mtime |-> st.mtime]

statCalls(dir, names) == {Call("stat", join(<<dir, n>>)) : n \in names}

(***************************************************************************)
(* part_001 (lines 1-344: admin by ?admin=PASS, anyone creates rooms;      *)
(* lines 346-698: admin cookie, admin-gated creation)                      *)
(***************************************************************************)
roomDir(room) == join(<<DATA_DIR, room>>)

\* part_001:53 isAdminReq = req.query.admin === ADMIN_PASS
P1a_isAdminReq(r) == r.tok = ADMIN_PASS

\* an admin check that passes every request
isAdminReqAlways(r) == TRUE

\* part_001:385 isAdminReq = req.cookies.admin === "1"
P1b_isAdminReq(r) == r.cookie

P1_isAdminReq(v, r) == IF v = "part_001a" THEN P1a_isAdminReq(r) ELSE P1b_isAdminReq(r)

\* ensureBase(); mkdir(roomDir(room), {recursive: true})
ensureRoom(D, F, room) == mkdirRecursive(mkdirRecursive(D, F, DATA_DIR), F, roomDir(room))

ensureRoomCalls(room) == {Call("mkdir", DATA_DIR), Call("mkdir", roomDir(room))}

\* listFiles: readdir withFileTypes, isFile() only, stat each, newest first; [] on error
listFiles(D, F, room) ==
    LET dir == roomDir(room)
    IN  IF dir \notin D THEN << >>
        ELSE sortNewestFirst({entryOf(D, F, dir, n) : n \in readdirFiles(D, F, dir)})

listFilesCalls(D, F, room) ==
    LET dir == roomDir(room)
    IN  {Call("readdir", dir)}
        \cup (IF dir \in D THEN statCalls(dir, readdirFiles(D, F, dir)) ELSE {})

\* storage.filename: `${Date.now()}_${nanoid(6)}.${ext}`
P1_filename(r) ==
    LET e1  == mimeExtension(r.file.mimetype)
        e2  == IF e1 # EMPTY THEN e1
               ELSE LET x == extname(r.file.originalname)
                    IN  IF x = EMPTY THEN EMPTY ELSE Tail(x)
        ext == IF e2 # EMPTY THEN e2 ELSE <<"b", "i", "n">>
    IN  DateNow(r.now) \o <<"_">> \o r.rand \o DOT \o ext

\* the same handler without the password test
postAdminOpen(r) == Resp(302, "redirect", "/", NoData)

P1_postAdmin(r) ==
    IF trim(r.pass) # ADMIN_PASS THEN Resp(401, "html", "-", NoData)
    ELSE Resp(302, "redirect", "/", NoData)

P1_createRoom(v, D, F, r) ==
    LET room == sanitizeRoom(r.room) IN
    IF v # "part_001a" /\ ~P1_isAdminReq(v, r) THEN Out(D, F, Resp(403, "text", "-", NoData), {})
    ELSE IF room = EMPTY THEN Out(D, F, Resp(400, "text", "-", NoData), {})
    ELSE Out(ensureRoom(D, F, room), F, Resp(302, "redirect", "/r/:room", NoData),
             ensureRoomCalls(room))

P1_getRoomNoCookie(v, D, F, r) ==
    LET room == sanitizeRoom(r.room) IN
    IF room = EMPTY \/ ~existsSync(D, F, roomDir(room))
    THEN Out(D, F, Resp(404, "text", "-", NoData), {})
    ELSE Out(D, F, [Resp(200, "room", "-", NoData) EXCEPT !.list = listFiles(D, F, room)],
             {Call("exists", roomDir(room))} \cup listFilesCalls(D, F, room))

P1_getRoom(v, D, F, r) ==
    LET room == sanitizeRoom(r.room) IN
    IF room = EMPTY THEN Out(D, F, Resp(404, "text", "-", NoData), {})
    ELSE IF ~existsSync(D, F, roomDir(room))
         THEN Out(D, F, Resp(404, "text", "-", NoData), {Call("exists", roomDir(room))})
    ELSE IF room \notin r.age
         THEN Out(D, F, Resp(200, "age", "-", NoData), {Call("exists", roomDir(room))})
    ELSE Out(D, F, [Resp(200, "room", "-", NoData) EXCEPT !.list = listFiles(D, F, room)],
             {Call("exists", roomDir(room))} \cup listFilesCalls(D, F, room))

\* the age cookie is set for the sanitized room
P1_ageOk(r) ==
    IF sanitizeRoom(r.room) = EMPTY THEN Resp(400, "text", "-", NoData)
    ELSE Resp(302, "redirect", "/r/:room", NoData)

\* upload.single("file") with limits.fileSize, then the route handler
P1_upload(v, D, F, r) ==
    LET room == sanitizeRoom(r.room)
        path == join(<<roomDir(room), P1_filename(r)>>)
        D1   == ensureRoom(D, F, room)
    IN  IF hasFile(r) /\ room = EMPTY THEN Out(D, F, Resp(500, "error", "-", NoData), {})
        ELSE IF hasFile(r) /\ ~mkdirOk(D, F, roomDir(room))
             THEN Out(D, F, Resp(500, "error", "-", NoData), ensureRoomCalls(room))
        ELSE IF hasFile(r) /\ r.file.size > MAX_FILE_MB
             THEN Out(D1, unlinkFiles(F, path), Resp(500, "error", "-", NoData),
                      ensureRoomCalls(room) \cup {Call("write", path), Call("unlink", path)})
        ELSE IF room = EMPTY THEN Out(D, F, Resp(400, "text", "-", NoData), {})
        ELSE IF ~hasFile(r) THEN Out(D, F, Resp(400, "text", "-", NoData), {})
        ELSE Out(D1, writeFile(F, path, fileRecord(r)), Resp(302, "redirect", "/r/:room", NoData),
                 ensureRoomCalls(room) \cup {Call("write", path)})

\* GET /file/:room/:name and GET /download/:room/:name
P1_serveFile(v, D, F, r) ==
    LET room == sanitizeRoom(r.room)
        name == basename(r.name)
        full == join(<<roomDir(room), name>>)
    IN  IF room = EMPTY \/ name = EMPTY THEN Out(D, F, Resp(400, "text", "-", NoData), {})
        ELSE IF ~existsSync(D, F, full)
             THEN Out(D, F, Resp(404, "text", "-", NoData), {Call("exists", full)})
        ELSE IF full \in D
             THEN Out(D, F, Resp(500, "error", "-", NoData), {Call("exists", full), Call("read", full)})
        ELSE Out(D, F, Resp(200, "file", "-", F[full].data), {Call("exists", full), Call("read", full)})

P1_deleteFile(v, D, F, r) ==
    LET room == sanitizeRoom(r.room)
        name == basename(r.name)
        full == join(<<roomDir(room), name>>)
    IN  IF ~P1_isAdminReq(v, r) THEN Out(D, F, Resp(403, "text", "-", NoData), {})
        ELSE IF room = EMPTY \/ name = EMPTY THEN Out(D, F, Resp(400, "text", "-", NoData), {})
        ELSE Out(D, unlinkFiles(F, full), Resp(302, "redirect", "/r/:room", NoData),
                 {Call("unlink", full)})

\* the same handler with rm({recursive: true}) alone: rm rejects for a missing path
deleteRoomNoForce(v, D, F, r) ==
    LET room  == sanitizeRoom(r.room)
        typed == trim(r.confirm)
    IN  IF ~P1_isAdminReq(v, r) THEN Out(D, F, Resp(403, "text", "-", NoData), {})
        ELSE IF room = EMPTY THEN Out(D, F, Resp(400, "text", "-", NoData), {})
        ELSE IF typed # room THEN Out(D, F, Resp(400, "text", "-", NoData), {})
        ELSE IF ~existsSync(D, F, roomDir(room))
             THEN Out(D, F, Resp(500, "error", "-", NoData), {Call("rm", roomDir(room))})
        ELSE Out(rmDirs(D, roomDir(room)), rmFiles(F, roomDir(room)),
                 Resp(302, "redirect", "/", NoData), {Call("rm", roomDir(room))})

P1_deleteRoom(v, D, F, r) ==
    LET room  == sanitizeRoom(r.room)
        typed == trim(r.confirm)
    IN  IF ~P1_isAdminReq(v, r) THEN Out(D, F, Resp(403, "text", "-", NoData), {})
        ELSE IF room = EMPTY THEN Out(D, F, Resp(400, "text", "-", NoData), {})
        ELSE IF typed # room THEN Out(D, F, Resp(400, "text", "-", NoData), {})
        ELSE Out(rmDirs(D, roomDir(room)), rmFiles(F, roomDir(room)),
                 Resp(302, "redirect", "/", NoData), {Call("rm", roomDir(room))})

(***************************************************************************)
(* app.js, variant 1 (lines 1-286): part_001b without the "bad room" and   *)
(* "no file" checks                                                        *)
(***************************************************************************)
\* app.js:33 isAdminReq = req.cookies?.admin === "1"
A1_isAdminReq(r) == r.cookie

A1_upload(D, F, r) ==
    LET room == sanitizeRoom(r.room)
        path == join(<<roomDir(room), P1_filename(r)>>)
        D1   == ensureRoom(D, F, room)
    IN  IF hasFile(r) /\ room = EMPTY THEN Out(D, F, Resp(500, "error", "-", NoData), {})
        ELSE IF hasFile(r) /\ ~mkdirOk(D, F, roomDir(room))
             THEN Out(D, F, Resp(500, "error", "-", NoData), ensureRoomCalls(room))
        ELSE IF hasFile(r) /\ r.file.size > MAX_FILE_MB
             THEN Out(D1, unlinkFiles(F, path), Resp(500, "error", "-", NoData),
                      ensureRoomCalls(room) \cup {Call("write", path), Call("unlink", path)})
        ELSE IF ~hasFile(r) THEN Out(D, F, Resp(302, "redirect", "/r/:room", NoData), {})
        ELSE Out(D1, writeFile(F, path, fileRecord(r)), Resp(302, "redirect", "/r/:room", NoData),
                 ensureRoomCalls(room) \cup {Call("write", path)})

A1_serveFile(D, F, r) ==
    LET full == join(<<roomDir(sanitizeRoom(r.room)), basename(r.name)>>)
    IN  IF ~existsSync(D, F, full)
        THEN Out(D, F, Resp(404, "text", "-", NoData), {Call("exists", full)})
        ELSE IF full \in D
             THEN Out(D, F, Resp(500, "error", "-", NoData), {Call("exists", full), Call("read", full)})
        ELSE Out(D, F, Resp(200, "file", "-", F[full].data), {Call("exists", full), Call("read", full)})

\* res.download(path) with no existence check: send answers 404 itself
A1_download(D, F, r) ==
    LET full == join(<<roomDir(sanitizeRoom(r.room)), basename(r.name)>>)
    IN  IF full \notin DOMAIN F THEN Out(D, F, Resp(404, "error", "-", NoData), {Call("read", full)})
        ELSE Out(D, F, Resp(200, "file", "-", F[full].data), {Call("read", full)})

A1_deleteFile(D, F, r) ==
    LET full == join(<<roomDir(sanitizeRoom(r.room)), basename(r.name)>>)
    IN  IF ~A1_isAdminReq(r) THEN Out(D, F, Resp(403, "text", "-", NoData), {})
        ELSE Out(D, unlinkFiles(F, full), Resp(302, "redirect", "/r/:room", NoData),
                 {Call("unlink", full)})

A1_deleteRoom(D, F, r) ==
    LET room  == sanitizeRoom(r.room)
        typed == trim(r.confirm)
    IN  IF ~A1_isAdminReq(r) THEN Out(D, F, Resp(403, "text", "-", NoData), {})
        ELSE IF typed # room THEN Out(D, F, Resp(400, "text", "-", NoData), {})
        ELSE Out(rmDirs(D, roomDir(room)), rmFiles(F, roomDir(room)),
                 Resp(302, "redirect", "/manage", NoData), {Call("rm", roomDir(room))})

(***************************************************************************)
(* part_000, app.js variants 3 (lines 612-853) and 4 (lines 855-1122):     *)
(* data root "uploads", admin cookie, JSON responses, age gate in the page *)
(***************************************************************************)
\* isAdminReq = req.cookies && req.cookies.admin === "1"
U_isAdminReq(r) == r.cookie

\* the room a handler works on: sanitizeRoom in part_000, toLowerCase in app.js
U_room(v, raw) == IF v = "part_000" THEN P0_sanitizeRoom(raw) ELSE toLowerCase(raw)

\* POST /admin: pass === ADMIN_PASS
U_postAdmin(r) ==
    IF r.pass = ADMIN_PASS THEN Resp(200, "json", "-", NoData) ELSE Resp(401, "json", "-", NoData)

\* listFiles: existsSync, readdirSync, statSync of every entry, newest first
U_listFiles(D, F, room) ==
    LET dir == join(<<DATA_DIR, room>>)
    IN  IF ~existsSync(D, F, dir) THEN << >>
        ELSE sortNewestFirst({entryOf(D, F, dir, n) : n \in readdir(D, F, dir)})

U_listFilesCalls(D, F, room) ==
    LET dir == join(<<DATA_DIR, room>>)
    IN  {Call("exists", dir)}
        \cup (IF existsSync(D, F, dir)
              THEN {Call("readdir", dir)} \cup statCalls(dir, readdir(D, F, dir)) ELSE {})

\* storage.filename: `${Date.now()}_${nanoid(6)}.${ext}`
U_filename(r) ==
    LET e   == mimeExtension(r.file.mimetype)
        ext == IF e # EMPTY THEN e ELSE <<"b", "i", "n">>
    IN  DateNow(r.now) \o <<"_">> \o r.rand \o DOT \o ext

P0_createRoom(D, F, r) ==
    LET room == P0_sanitizeRoom(r.room)
        dir  == join(<<DATA_DIR, room>>)
        keep == join(<<dir, <<".", "k">>>>)
    IN  IF ~U_isAdminReq(r) THEN Out(D, F, Resp(401, "json", "-", NoData), {})
        ELSE IF room = EMPTY THEN Out(D, F, Resp(400, "json", "-", NoData), {})
        ELSE IF existsSync(D, F, dir)
             THEN Out(D, F, Resp(409, "json", "-", NoData), {Call("exists", dir)})
        ELSE Out(mkdirRecursive(D, F, dir), writeFile(F, keep, [data |-> "", size |-> 0, mtime |-> r.now]),
                 Resp(200, "json", "-", NoData),
                 {Call("exists", dir), Call("mkdir", dir), Call("write", keep)})

U_getRoom(v, D, F, r) ==
    LET room == U_room(v, r.room)
        dir  == join(<<DATA_DIR, room>>)
    IN  IF dir \in DOMAIN F
        THEN Out(D, F, Resp(500, "error", "-", NoData), {Call("exists", dir), Call("readdir", dir)})
        ELSE Out(D, F, [Resp(200, "room", "-", NoData) EXCEPT !.list = U_listFiles(D, F, room)],
                 U_listFilesCalls(D, F, room))

U_upload(v, D, F, r) ==
    LET dir  == join(<<DATA_DIR, U_room(v, r.room)>>)
        path == join(<<dir, U_filename(r)>>)
    IN  IF ~hasFile(r) THEN Out(D, F, Resp(400, "json", "-", NoData), {})
        ELSE IF ~mkdirOk(D, F, dir)
             THEN Out(D, F, Resp(500, "error", "-", NoData), {Call("mkdir", dir)})
        ELSE Out(mkdirRecursive(D, F, dir), writeFile(F, path, fileRecord(r)),
                 Resp(200, "json", "-", NoData), {Call("mkdir", dir), Call("write", path)})

U_deleteFile(v, D, F, r) ==
    LET room == U_room(v, r.room)
        p    == join(<<DATA_DIR, room, r.name>>)
    IN  IF ~U_isAdminReq(r) THEN Out(D, F, Resp(401, "json", "-", NoData), {})
        ELSE IF ~startsWith(p, join(<<DATA_DIR, room>>))
             THEN Out(D, F, Resp(400, "json", "-", NoData), {})
        ELSE Out(D, unlinkFiles(F, p), Resp(200, "json", "-", NoData), {Call("unlink", p)})

U_deleteRoom(v, D, F, r) ==
    LET room == U_room(v, r.room)
        dir  == join(<<DATA_DIR, room>>)
    IN  IF ~U_isAdminReq(r) THEN Out(D, F, Resp(401, "json", "-", NoData), {})
        ELSE IF room = EMPTY THEN Out(D, F, Resp(400, "json", "-", NoData), {})
        ELSE IF ~startsWith(dir, DATA_DIR) THEN Out(D, F, Resp(400, "json", "-", NoData), {})
        ELSE IF ~existsSync(D, F, dir)
             THEN Out(D, F, Resp(200, "json", "-", NoData), {Call("exists", dir)})
        ELSE Out(rmDirs(D, dir), rmFiles(F, dir), Resp(200, "json", "-", NoData),
                 {Call("exists", dir), Call("rm", dir)})

(***************************************************************************)
(* part_003 (lines 1-201: no admin; lines 203-453: admin by ?admin=PASS)   *)
(* and src/app.js variant 2 (lines 254-539: admin by body field "pass"):   *)
(* a signed site-wide age cookie guards every route but the gate's own     *)
(***************************************************************************)
\* ageGate middleware: req.signedCookies[AGE_COOKIE] === "1"
G_ageGate(r) == GLOBAL \in r.age

\* req.query.admin === ADMIN_PASS / req.body.pass === ADMIN_PASS
G_isAdmin(r) == r.tok = ADMIN_PASS

\* fs.readdirSync(dir).map(...): the entries in directory order.  The order is
\* the file system's, fixed neither by name nor by time: rev picks one of two
\* opposite orders
RECURSIVE inDirectoryOrder(_, _)
inDirectoryOrder(S, rev) ==
    IF S = {} THEN << >>
    ELSE LET m == CHOOSE e \in S : TRUE
         IN  IF rev THEN inDirectoryOrder(S \ {m}, rev) \o <<m>>
             ELSE <<m>> \o inDirectoryOrder(S \ {m}, rev)

\* storage.filename: ts + "-" + originalname.replace(/[^\w.\-]+/g, "_").slice(-100)
G_filename(r) ==
    DateNow(r.now) \o <<"-">> \o sliceLast(replaceUnsafeRuns(r.file.originalname), 100)

G_createRoom(D, F, r) ==
    LET name == trim(r.room)
        dir  == join(<<DATA_DIR, name>>)
    IN  IF ~G_isAdmin(r) THEN Out(D, F, Resp(403, "text", "-", NoData), {})
        ELSE IF ~isValidRoom(name) THEN Out(D, F, Resp(400, "text", "-", NoData), {})
        ELSE IF ~mkdirOk(D, F, dir)
             THEN Out(D, F, Resp(500, "error", "-", NoData), {Call("mkdir", dir)})
        ELSE Out(mkdirRecursive(D, F, dir), F, Resp(302, "redirect", "/admin", NoData),
                 {Call("mkdir", dir)})

G_getRoom(D, F, r) ==
    LET room == r.room
        dir  == join(<<DATA_DIR, room>>)
        D1   == mkdirRecursive(D, F, dir)
    IN  IF ~isValidRoom(room) THEN Out(D, F, Resp(404, "text", "-", NoData), {})
        ELSE IF ~mkdirOk(D, F, dir)
             THEN Out(D, F, Resp(500, "error", "-", NoData), {Call("mkdir", dir)})
        ELSE Out(D1, F,
                 [Resp(200, "room", "-", NoData) EXCEPT
                    !.list = inDirectoryOrder({entryOf(D1, F, dir, n) : n \in readdir(D1, F, dir)},
                                             r.rev)],
                 {Call("mkdir", dir), Call("readdir", dir)} \cup statCalls(dir, readdir(D1, F, dir)))

G_upload(D, F, r) ==
    LET dir  == join(<<DATA_DIR, r.room>>)
        path == join(<<dir, G_filename(r)>>)
        D1   == mkdirRecursive(D, F, dir)
    IN  IF ~hasFile(r) THEN Out(D, F, Resp(400, "text", "-", NoData), {})
        ELSE IF ~mkdirOk(D, F, dir)
             THEN Out(D, F, Resp(500, "error", "-", NoData), {Call("mkdir", dir)})
        ELSE IF r.file.size > MAX_UPLOAD_MB
             THEN Out(D1, unlinkFiles(F, path), Resp(500, "error", "-", NoData),
                      {Call("mkdir", dir), Call("write", path), Call("unlink", path)})
        ELSE Out(D1, writeFile(F, path, fileRecord(r)), Resp(302, "redirect", "/r/:room", NoData),
                 {Call("mkdir", dir), Call("write", path)})

\* res.sendFile(p) / res.download(p, name)
G_serveFile(D, F, r) ==
    LET p == join(<<DATA_DIR, r.room, r.name>>)
    IN  IF ~existsSync(D, F, p) THEN Out(D, F, Resp(404, "text", "-", NoData), {Call("exists", p)})
        ELSE IF p \in D
             THEN Out(D, F, Resp(500, "error", "-", NoData), {Call("exists", p), Call("read", p)})
        ELSE Out(D, F, Resp(200, "file", "-", F[p].data), {Call("exists", p), Call("read", p)})

\* the same handler without the existsSync test: unlinkSync throws for a missing file
deleteFileUnguarded(D, F, r) ==
    LET p == join(<<DATA_DIR, r.room, r.name>>)
    IN  IF ~G_isAdmin(r) THEN Out(D, F, Resp(403, "text", "-", NoData), {})
        ELSE IF p \notin DOMAIN F
             THEN Out(D, F, Resp(500, "error", "-", NoData), {Call("unlink", p)})
        ELSE Out(D, unlinkFiles(F, p), Resp(302, "redirect", "/r/:room", NoData),
                 {Call("unlink", p)})

\* part_003:443 POST /delete/:room/:name
P3b_deleteFile(D, F, r) ==
    LET p == join(<<DATA_DIR, r.room, r.name>>)
    IN  IF ~G_isAdmin(r) THEN Out(D, F, Resp(403, "text", "-", NoData), {})
        ELSE IF ~existsSync(D, F, p)
             THEN Out(D, F, Resp(302, "redirect", "/r/:room", NoData), {Call("exists", p)})
        ELSE IF p \in D
             THEN Out(D, F, Resp(500, "error", "-", NoData), {Call("exists", p), Call("unlink", p)})
        ELSE Out(D, unlinkFiles(F, p), Resp(302, "redirect", "/r/:room", NoData),
                 {Call("exists", p), Call("unlink", p)})

\* part_003:359 POST /r/:room/delete
P3b_deleteRoom(D, F, r) ==
    LET room == r.room
        dir  == join(<<DATA_DIR, room>>)
    IN  IF ~G_isAdmin(r) THEN Out(D, F, Resp(403, "text", "-", NoData), {})
        ELSE IF r.confirm # room THEN Out(D, F, Resp(400, "text", "-", NoData), {})
        ELSE IF ~existsSync(D, F, dir)
             THEN Out(D, F, Resp(302, "redirect", "/", NoData), {Call("exists", dir)})
        ELSE Out(rmDirs(D, dir), rmFiles(F, dir), Resp(302, "redirect", "/", NoData),
                 {Call("exists", dir), Call("rm", dir)})

\* src/app.js:527 POST /admin/delete
B2_deleteRoom(D, F, r) ==
    LET room == trim(r.room)
        dir  == join(<<DATA_DIR, room>>)
    IN  IF ~G_isAdmin(r) THEN Out(D, F, Resp(403, "text", "-", NoData), {})
        ELSE IF ~isValidRoom(room) THEN Out(D, F, Resp(400, "text", "-", NoData), {})
        ELSE IF ~existsSync(D, F, dir)
             THEN Out(D, F, Resp(302, "redirect", "/admin", NoData), {Call("exists", dir)})
        ELSE Out(rmDirs(D, dir), rmFiles(F, dir), Resp(302, "redirect", "/admin", NoData),
                 {Call("exists", dir), Call("rm", dir)})

(***************************************************************************)
(* app.js variant 2 (lines 288-610): no cookies at all; admin by the       *)
(* "admin" query or body field, age by ?over18=1                           *)
(***************************************************************************)
\* app.js:333 isAdmin = req.query.admin === ADMIN_PASS (req.body.admin in the POST routes)
A2_isAdmin(r) == r.tok = ADMIN_PASS

\* requireOver18
A2_requireOver18(r) == A2_isAdmin(r) \/ r.over18

\* storage.filename: `${Date.now()}-${nanoid(6)}.${ext}`
A2_filename(r) ==
    LET e   == mimeExtension(r.file.mimetype)
        ext == IF e # EMPTY THEN e ELSE <<"b", "i", "n">>
    IN  DateNow(r.now) \o <<"-">> \o r.rand \o DOT \o ext

A2_createRoom(D, F, r) ==
    LET room == toLowerCase(trim(r.room))
        dir  == join(<<DATA_DIR, room>>)
    IN  IF ~A2_isAdmin(r) THEN Out(D, F, Resp(302, "redirect", "/rooms", NoData), {})
        ELSE IF ~MatchesRoomPattern(room) THEN Out(D, F, Resp(200, "html", "-", NoData), {})
        ELSE IF ~mkdirOk(D, F, dir)
             THEN Out(D, F, Resp(500, "error", "-", NoData), {Call("mkdir", dir)})
        ELSE Out(mkdirRecursive(D, F, dir), F, Resp(302, "redirect", "/rooms?admin", NoData),
                 {Call("mkdir", dir)})

A2_deleteRoom(D, F, r) ==
    LET room == r.room
        dir  == join(<<DATA_DIR, room>>)
    IN  IF ~A2_isAdmin(r) THEN Out(D, F, Resp(302, "redirect", "/rooms", NoData), {})
        ELSE IF trim(r.confirm) # room THEN Out(D, F, Resp(200, "html", "-", NoData), {})
        ELSE IF ~existsSync(D, F, dir)
             THEN Out(D, F, Resp(302, "redirect", "/rooms?admin", NoData), {Call("exists", dir)})
        ELSE Out(rmDirs(D, dir), rmFiles(F, dir), Resp(302, "redirect", "/rooms?admin", NoData),
                 {Call("exists", dir), Call("rm", dir)})

A2_getRoom(D, F, r) ==
    LET room == toLowerCase(r.room)
        dir  == join(<<DATA_DIR, room>>)
    IN  IF ~A2_requireOver18(r) THEN Out(D, F, Resp(200, "age", "-", NoData), {})
        ELSE IF ~MatchesRoomPattern(room) THEN Out(D, F, Resp(302, "redirect", "/rooms", NoData), {})
        ELSE IF dir \in DOMAIN F
             THEN Out(D, F, Resp(500, "error", "-", NoData), {Call("exists", dir), Call("readdir", dir)})
        ELSE Out(D, F, [Resp(200, "room", "-", NoData) EXCEPT !.list = U_listFiles(D, F, room)],
                 U_listFilesCalls(D, F, room))

\* upload.single("file") without a size limit; the handler redirects whatever req.file is
A2_upload(D, F, r) ==
    LET dir  == join(<<DATA_DIR, toLowerCase(r.room)>>)
        path == join(<<dir, A2_filename(r)>>)
    IN  IF ~hasFile(r) THEN Out(D, F, Resp(302, "redirect", "/room/:room?over18=1", NoData), {})
        ELSE IF ~mkdirOk(D, F, dir)
             THEN Out(D, F, Resp(500, "error", "-", NoData), {Call("mkdir", dir)})
        ELSE Out(mkdirRecursive(D, F, dir), writeFile(F, path, fileRecord(r)),
                 Resp(302, "redirect", "/room/:room?over18=1", NoData),
                 {Call("mkdir", dir), Call("write", path)})

\* GET /delete/:room/:name: fs.rmSync(file, {force: true}) throws on a directory
A2_deleteFile(D, F, r) ==
    LET file == join(<<DATA_DIR, r.room, r.name>>)
    IN  IF ~A2_isAdmin(r) THEN Out(D, F, Resp(302, "redirect", "/rooms", NoData), {})
        ELSE IF ~existsSync(D, F, file)
             THEN Out(D, F, Resp(302, "redirect", "/room/:room?admin", NoData), {Call("exists", file)})
        ELSE IF file \in D
             THEN Out(D, F, Resp(500, "error", "-", NoData), {Call("exists", file), Call("rm", file)})
        ELSE Out(D, unlinkFiles(F, file), Resp(302, "redirect", "/room/:room?admin", NoData),
                 {Call("exists", file), Call("rm", file)})

(***************************************************************************)
(* src/app.js variant 1 (lines 1-252): safeBase on every segment, admin by *)
(* ?admin=PASS, unsigned site-wide age cookie on /room/* only              *)
(***************************************************************************)
B1_isAdmin(r) == r.tok = ADMIN_PASS

\* the age-gate middleware lets everything but /room/* through
B1_ageGate(r) == r.h # "getRoom" \/ GLOBAL \in r.age

\* storage.filename: extname(originalname) || "." + (mime.extension(mimetype) || "bin")
B1_filename(r) ==
    LET x   == extname(r.file.originalname)
        e   == mimeExtension(r.file.mimetype)
        ext == IF x # EMPTY THEN x ELSE DOT \o (IF e # EMPTY THEN e ELSE <<"b", "i", "n">>)
    IN  DateNow(r.now) \o <<"_">> \o r.rand \o toLowerCase(ext)

B1_getRoom(D, F, r) ==
    LET room == safeBase(r.room)
        dir  == join(<<DATA_DIR, room>>)
        D1   == mkdirRecursive(D, F, dir)
    IN  IF room = EMPTY THEN Out(D, F, Resp(302, "redirect", "/", NoData), {})
        ELSE IF ~mkdirOk(D, F, dir)
             THEN Out(D, F, Resp(500, "error", "-", NoData), {Call("mkdir", dir)})
        ELSE Out(D1, F,
                 [Resp(200, "room", "-", NoData) EXCEPT
                    !.list = sortNewestFirst({entryOf(D1, F, dir, n) : n \in readdir(D1, F, dir)})],
                 {Call("mkdir", dir), Call("readdir", dir)} \cup statCalls(dir, readdir(D1, F, dir)))

B1_upload(D, F, r) ==
    LET dir  == join(<<DATA_DIR, safeBase(r.room)>>)
        path == join(<<dir, B1_filename(r)>>)
    IN  IF ~hasFile(r) THEN Out(D, F, Resp(302, "redirect", "/room/:room", NoData), {})
        ELSE IF ~mkdirOk(D, F, dir)
             THEN Out(D, F, Resp(500, "error", "-", NoData), {Call("mkdir", dir)})
        ELSE Out(mkdirRecursive(D, F, dir), writeFile(F, path, fileRecord(r)),
                 Resp(302, "redirect", "/room/:room", NoData),
                 {Call("mkdir", dir), Call("write", path)})

B1_deleteFile(D, F, r) ==
    LET filePath == join(<<DATA_DIR, safeBase(r.room), safeBase(r.name)>>)
    IN  IF ~B1_isAdmin(r) THEN Out(D, F, Resp(403, "text", "-", NoData), {})
        ELSE Out(D, unlinkFiles(F, filePath), Resp(302, "redirect", "/room/:room?admin", NoData),
                 {Call("unlink", filePath)})

(***************************************************************************)
(* part_002: rooms named by nanoid, no admin, age cookie set by the page   *)
(***************************************************************************)
\* ageGate: (req.headers.cookie || "").includes("age_ok=1"); /u/* is exempt
P2_ageGate(r) == GLOBAL \in r.age

\* ALLOWED
P2_ALLOWED == {"image/png"}

\* storage.filename: nanoid(10) + (ext ? "." + ext : "")
P2_filename(r) ==
    LET e == mimeExtension(r.file.mimetype)
    IN  r.rand \o (IF e # EMPTY THEN DOT \o e ELSE EMPTY)

\* POST /new: the room id is nanoid(6)
P2_new(D, F, r) ==
    LET dir == join(<<DATA_DIR, r.rand>>)
    IN  IF ~mkdirOk(D, F, dir) THEN Out(D, F, Resp(500, "error", "-", NoData), {Call("mkdir", dir)})
        ELSE Out(mkdirRecursive(D, F, dir), F, Resp(302, "redirect", "/r/:room", NoData),
                 {Call("mkdir", dir)})

P2_getRoom(D, F, r) ==
    LET dir == join(<<DATA_DIR, r.room>>)
        D1  == mkdirRecursive(D, F, dir)
    IN  IF ~mkdirOk(D, F, dir) THEN Out(D, F, Resp(500, "error", "-", NoData), {Call("mkdir", dir)})
        ELSE Out(D1, F,
                 [Resp(200, "room", "-", NoData) EXCEPT
                    !.list = inDirectoryOrder({entryOf(D1, F, dir, n) : n \in readdir(D1, F, dir)},
                                             r.rev)],
                 {Call("mkdir", dir), Call("readdir", dir)})

\* makeUploader()(req, res, cb): a failed upload is answered 200 "Upload failed: ..."
P2_upload(D, F, r) ==
    LET dir  == join(<<DATA_DIR, r.room>>)
        path == join(<<dir, P2_filename(r)>>)
        D1   == mkdirRecursive(D, F, dir)
    IN  IF ~hasFile(r) THEN Out(D, F, Resp(302, "redirect", "/r/:room", NoData), {})
        ELSE IF r.file.mimetype \notin P2_ALLOWED
             THEN Out(D, F, Resp(200, "text", "-", NoData), {})
        ELSE IF ~mkdirOk(D, F, dir)
             THEN Out(D, F, Resp(500, "error", "-", NoData), {Call("mkdir", dir)})
        ELSE IF r.file.size > MAX_FILE_MB
             THEN Out(D1, unlinkFiles(F, path), Resp(200, "text", "-", NoData),
                      {Call("mkdir", dir), Call("write", path), Call("unlink", path)})
        ELSE Out(D1, writeFile(F, path, fileRecord(r)), Resp(302, "redirect", "/r/:room", NoData),
                 {Call("mkdir", dir), Call("write", path)})

(***************************************************************************)
(* The routes of each variant                                              *)
(***************************************************************************)
CookieVariants == {"part_000", "part_001b", "app_1", "app_3", "app_4"}

\* the variants whose room-creation route asks for the admin credential
StrictVariants == {"part_000", "part_001b", "app_1", "part_003b", "app_2", "src_app_2"}

FamP1 == {"part_001a", "part_001b", "app_1"}

FamU == {"part_000", "app_3", "app_4"}

FamG == {"part_003a", "part_003b", "src_app_2"}

Routes(v) ==
    CASE v = "part_000"  -> {"login", "logout", "createRoom", "getRoom", "upload",
                             "deleteFile", "deleteRoom"}
      [] v = "part_001a" -> {"ageOk", "createRoom", "getRoom", "upload", "file", "download",
                             "deleteFile", "deleteRoom"}
      [] v \in {"part_001b", "app_1"}
                         -> {"login", "logout", "ageOk", "createRoom", "getRoom", "upload",
                             "file", "download", "deleteFile", "deleteRoom"}
      [] v = "part_002"  -> {"createRoom", "getRoom", "upload"}
      [] v = "part_003a" -> {"ageOk", "getRoom", "upload", "file"}
      [] v = "part_003b" -> {"ageOk", "createRoom", "getRoom", "upload", "file",
                             "deleteFile", "deleteRoom"}
      [] v = "app_2"     -> {"createRoom", "getRoom", "upload", "file", "deleteFile", "deleteRoom"}
      [] v = "app_3"     -> {"login", "logout", "getRoom", "upload", "deleteFile"}
      [] v = "app_4"     -> {"login", "logout", "getRoom", "upload", "deleteFile", "deleteRoom"}
      [] v = "src_app_1" -> {"ageOk", "getRoom", "upload", "deleteFile"}
      [] v = "src_app_2" -> {"ageOk", "createRoom", "getRoom", "upload", "file", "deleteRoom"}

\* the file name storage.filename gives an upload
filenameOf(v, r) ==
    CASE v \in FamP1     -> P1_filename(r)
      [] v \in FamU      -> U_filename(r)
      [] v \in FamG      -> G_filename(r)
      [] v = "app_2"     -> A2_filename(r)
      [] v = "src_app_1" -> B1_filename(r)
      [] v = "part_002"  -> P2_filename(r)

\* POST /admin/logout: clearCookie, then a redirect or {ok: true}
postLogout(v) ==
    IF v \in FamU THEN Resp(200, "json", "-", NoData) ELSE Resp(302, "redirect", "/", NoData)

\* app.js:237 POST /age-ok/:room sets the cookie whatever the room is
A1_ageOk(r) == Resp(302, "redirect", "/r/:room", NoData)

\* POST /gate/ok and GET /age/yes: set the site-wide cookie, redirect to next
\* POST /gate/ok, GET /age/yes: res.redirect(req.body.next || "/")
G_gateOk(r) ==
    [Resp(302, "redirect", "next", NoData)
        EXCEPT !.url = IF r.next = EMPTY THEN SLASH ELSE r.next]

\* the age middleware in front of the routes; TRUE lets the request through
ageMiddleware(v, r) ==
    CASE v \in FamG      -> r.h = "ageOk" \/ G_ageGate(r)
      [] v = "src_app_1" -> B1_ageGate(r)
      [] v = "part_002"  -> P2_ageGate(r)
      [] OTHER           -> TRUE

\* encodeURIComponent leaves A-Z a-z 0-9 - _ . ! ~ * ' ( ) as they are; of the
\* characters that occur here it escapes these
UriEscaped == {" ", "%", "&", "/", ":", "=", "?"}

\* each written as %XX
PercentCode(c) ==
    CASE c = " " -> <<"%", "2", "0">>
      [] c = "%" -> <<"%", "2", "5">>
      [] c = "&" -> <<"%", "2", "6">>
      [] c = "/" -> <<"%", "2", "F">>
      [] c = ":" -> <<"%", "3", "A">>
      [] c = "=" -> <<"%", "3", "D">>
      [] c = "?" -> <<"%", "3", "F">>

RECURSIVE encodeURIComponent(_)
encodeURIComponent(s) ==
    IF s = EMPTY THEN EMPTY
    ELSE (IF s[1] \in UriEscaped THEN PercentCode(s[1]) ELSE <<s[1]>>)
         \o encodeURIComponent(Tail(s))

\* the string as it is, nothing decoded
decodeNothing(s) == s

\* the query parser's decoding: %XX back to its character
RECURSIVE decodeURIComponent(_)
decodeURIComponent(s) ==
    IF s = EMPTY THEN EMPTY
    ELSE IF s[1] = "%" /\ Len(s) >= 3
         THEN <<CHOOSE c \in UriEscaped :
                    PercentCode(c) = SubSeq(s, 1, 3)>>
              \o decodeURIComponent(SubSeq(s, 4, Len(s)))
    ELSE <<s[1]>> \o decodeURIComponent(Tail(s))

\* req.originalUrl of a request to a route behind the site-wide gate, as a browser
\* sends it: the path segments percent-encoded, ?admin= when the token is given
originalUrl(v, r) ==
    LET room  == encodeURIComponent(r.room)
        name  == encodeURIComponent(r.name)
        query == IF r.tok = EMPTY \/ v = "src_app_2" THEN EMPTY
                 ELSE <<"?", "a", "d", "m", "i", "n", "=">> \o encodeURIComponent(r.tok)
    IN  (CASE r.h = "getRoom" /\ v = "src_app_1" -> <<"/", "r", "o", "o", "m", "/">> \o room
           [] r.h = "getRoom"    -> <<"/", "r", "/">> \o room
           [] r.h = "upload"     -> <<"/", "u", "p", "l", "o", "a", "d", "/">> \o room
           [] r.h = "file"       -> <<"/", "f", "i", "l", "e", "/">> \o room \o SLASH \o name
           [] r.h = "deleteFile" -> <<"/", "d", "e", "l", "e", "t", "e", "/">> \o room \o SLASH \o name
           [] r.h = "deleteRoom" /\ v = "src_app_2" -> <<"/", "a", "d", "m", "i", "n", "/", "d", "e", "l", "e", "t", "e">>
           [] r.h = "deleteRoom" -> <<"/", "r", "/">> \o room \o <<"/", "d", "e", "l", "e", "t", "e">>
           [] r.h = "createRoom" /\ v = "src_app_2" -> <<"/", "a", "d", "m", "i", "n", "/", "c", "r", "e", "a", "t", "e">>
           [] OTHER              -> <<"/", "r", "o", "o", "m", "s">>) \o query

\* what the middleware answers when it stops a request: the age page in part_002, else
\* res.redirect("/gate?next=" + encodeURIComponent(req.originalUrl)), /age?redirect= in
\* src/app.js variant 1
ageRefusal(v, r) ==
    IF v = "part_002" THEN Resp(200, "age", "-", NoData)
    ELSE [Resp(302, "redirect", "/gate", NoData)
             EXCEPT !.url = (IF v = "src_app_1" THEN <<"/", "a", "g", "e", "?", "r", "e", "d", "i", "r", "e", "c", "t", "=">>
                             ELSE <<"/", "g", "a", "t", "e", "?", "n", "e", "x", "t", "=">>)
                            \o encodeURIComponent(originalUrl(v, r))]

OnlyResp(D, F, resp) == Out(D, F, resp, {})

\* app.use(ageGate) first, then the route
\* GET /gate, GET /age: the page puts next into the Yes form, the quote that
\* delimits the attribute replaced by its character reference (src/app.js variant 1
\* percent-encodes it into the Yes link), and the browser reads it back
gatePageNext(v, next) ==
    LET quote == IF v = "part_003a" THEN "'" ELSE "\""
        ref   == IF v = "part_003a" THEN "&#39;" ELSE "&quot;"
        value == [i \in 1..Len(next) |-> IF next[i] = quote THEN ref ELSE next[i]]
    IN  IF v = "src_app_1" THEN decodeURIComponent(encodeURIComponent(next))
        ELSE [i \in 1..Len(value) |-> IF value[i] = ref THEN quote ELSE value[i]]

\* what a visitor who follows the gate's redirect and presses Yes submits as next
pressYes(v, url) ==
    LET at == CHOOSE i \in 1..Len(url) : url[i] = "=" /\ \A j \in 1..(i - 1) : url[j] # "="
    IN  gatePageNext(v, decodeURIComponent(SubSeq(url, at + 1, Len(url))))

Gated(v, D, F, r, routed) ==
    IF ~ageMiddleware(v, r) THEN OnlyResp(D, F, ageRefusal(v, r)) ELSE routed

postAdmin(v, D, F, r) ==
    OnlyResp(D, F, IF v \in FamU THEN U_postAdmin(r) ELSE P1_postAdmin(r))

ageOk(v, D, F, r) ==
    OnlyResp(D, F, IF v = "app_1" THEN A1_ageOk(r)
                   ELSE IF v \in FamP1 THEN P1_ageOk(r) ELSE G_gateOk(r))

createRoom(v, D, F, r) ==
    CASE v \in FamP1    -> P1_createRoom(v, D, F, r)
      [] v = "part_000" -> P0_createRoom(D, F, r)
      [] v = "part_002" -> P2_new(D, F, r)
      [] v = "app_2"    -> A2_createRoom(D, F, r)
      [] OTHER          -> G_createRoom(D, F, r)

\* The hrefs of the navigation buttons of the room view that are built with the
\* admin secret: the Rooms link of part_001 (first variant), the adminToggle of
\* part_003 (second variant), the adminBadge of app.js variant 2.
roomLinks(v, r, secret) ==
    CASE v = "part_001a" ->
            {SLASH \o (IF r.tok = secret THEN <<"?", "a", "d", "m", "i", "n", "=">> \o encodeURIComponent(secret) ELSE EMPTY)}
      [] v = "part_003b" ->
            {<<"/", "r", "/">> \o encodeURIComponent(r.room)
               \o (IF r.tok = secret THEN EMPTY ELSE <<"?", "a", "d", "m", "i", "n", "=">> \o encodeURIComponent(secret))}
      [] v = "app_2" ->
            {(IF r.tok = secret THEN <<"/", "r", "o", "o", "m", "s">> ELSE <<"/", "a", "d", "m", "i", "n">>) \o <<"?", "a", "d", "m", "i", "n", "=">> \o secret}
      [] OTHER -> {}

getRoom(v, D, F, r) ==
    \* the room view is sent with its links
    LET out == (CASE v \in FamP1     -> P1_getRoom(v, D, F, r)
                  [] v \in FamU      -> U_getRoom(v, D, F, r)
                  [] v \in FamG      -> G_getRoom(D, F, r)
                  [] v = "app_2"     -> A2_getRoom(D, F, r)
                  [] v = "src_app_1" -> B1_getRoom(D, F, r)
                  [] v = "part_002"  -> P2_getRoom(D, F, r))
    IN  IF out.resp.kind = "room"
        THEN [out EXCEPT !.resp.links = roomLinks(v, r, ADMIN_PASS)]
        ELSE out

upload(v, D, F, r) ==
    CASE v = "app_1"             -> A1_upload(D, F, r)
      [] v \in FamP1 \ {"app_1"} -> P1_upload(v, D, F, r)
      [] v \in FamU              -> U_upload(v, D, F, r)
      [] v \in FamG              -> G_upload(D, F, r)
      [] v = "app_2"             -> A2_upload(D, F, r)
      [] v = "src_app_1"         -> B1_upload(D, F, r)
      [] v = "part_002"          -> P2_upload(D, F, r)

serveFile(v, D, F, r) ==
    CASE v = "app_1"             -> A1_serveFile(D, F, r)
      [] v \in FamP1 \ {"app_1"} -> P1_serveFile(v, D, F, r)
      [] OTHER                   -> G_serveFile(D, F, r)

download(v, D, F, r) ==
    IF v = "app_1" THEN A1_download(D, F, r) ELSE P1_serveFile(v, D, F, r)

deleteFile(v, D, F, r) ==
    CASE v = "app_1"             -> A1_deleteFile(D, F, r)
      [] v \in FamP1 \ {"app_1"} -> P1_deleteFile(v, D, F, r)
      [] v \in FamU              -> U_deleteFile(v, D, F, r)
      [] v = "part_003b"         -> P3b_deleteFile(D, F, r)
      [] v = "app_2"             -> A2_deleteFile(D, F, r)
      [] v = "src_app_1"         -> B1_deleteFile(D, F, r)

deleteRoom(v, D, F, r) ==
    CASE v = "app_1"             -> A1_deleteRoom(D, F, r)
      [] v \in FamP1 \ {"app_1"} -> P1_deleteRoom(v, D, F, r)
      [] v \in FamU              -> U_deleteRoom(v, D, F, r)
      [] v = "part_003b"         -> P3b_deleteRoom(D, F, r)
      [] v = "app_2"             -> A2_deleteRoom(D, F, r)
      [] v = "src_app_2"         -> B2_deleteRoom(D, F, r)

(***************************************************************************)
(* The server as a state machine: one client, one request at a time        *)
(***************************************************************************)
VARIABLES
    variant,     \* which of the near-duplicate servers is running
    dirs,        \* the directories of the file system
    files,       \* the files: path -> [data, size, mtime]
    now,         \* Date.now(); it advances with every request
    jar,         \* the client's cookies as the server has set them: [admin, age];
                 \* admin is "-" (never set), "1" (set) or "cleared" (by logout)
    req,         \* the last request
    resp,        \* its response
    calls,       \* the fs calls its handler made
    pre,         \* the file system and the jar just before it, and the Location that
                 \* a confirmation of the age answers
    lastUpload,  \* the file the last or the last but one request uploaded, if it did
    lastDelete,  \* what the last or the last but one request deleted, if it did
    secretSent,  \* some request so far carried the admin secret
    inFlight     \* a room page whose handler awaits between its directory read and
                 \* its stats: [st, r, dir, entries]; st is "-", "reading" or, just
                 \* after the page was answered, "rendered"

vars ==
    <<variant, dirs, files, now, jar, req, resp, calls, pre, lastUpload, lastDelete,
      secretSent, inFlight>>

\* how many requests a behaviour holds
MaxRequests == 2

Small == [data |-> "small", size |-> 1, mimetype |-> "image/png",
          originalname |-> <<"t", ".", "p", "n", "g">>]

Payloads ==
    {NoFile, Small,
     [data |-> "big", size |-> 51, mimetype |-> "image/png",
      originalname |-> <<"t", ".", "p", "n", "g">>]}

\* nanoid()
RandIds == {<<"x">>, <<"y">>}

RoomA == <<"a">>

RoomB == <<"b">>

\* decoded :room segments: a room, its name in need of trim and lower-casing, dot segments
RoomInputs == {RoomA, <<" ", "A">>, DOTDOT, DOT}

\* names typed into the room-creation form
\* decoded :name segments: the files there are, and ways out of the room
NameInputs(F) ==
    {basename(q) : q \in {e \in DOMAIN F : dirname(e) # roomDir(RoomB)}}
    \cup {<<".", ".", "/", ".", ".", "/", "j">>}
    \cup {<<".", ".", "/">> \o RoomB \o SLASH \o basename(q) :
            q \in {e \in DOMAIN F : dirname(e) = roomDir(RoomB)}}

\* what a client can put where the variant looks for the admin credential
Credentials(v) ==
    IF v \in CookieVariants THEN {[cookie |-> c, tok |-> EMPTY] : c \in BOOLEAN}
    ELSE IF v \in {"part_001a", "part_003b", "app_2", "src_app_1", "src_app_2"}
         THEN {[cookie |-> FALSE, tok |-> t] : t \in {EMPTY, ADMIN_PASS}}
    ELSE {[cookie |-> FALSE, tok |-> EMPTY]}

\* the age cookies a request carries: the jar's; part_002 sets its cookie in the page's script
AgeInputs(v, j) == IF v = "part_002" THEN {{}, {GLOBAL}} ELSE {j.age}

\* the next / redirect parameter of a confirmation: none, the one the gate's redirect
\* carried, or an address of the client's choosing
NextInputs(v, sent) ==
    IF v \notin FamG \cup {"src_app_1"} THEN {EMPTY}
    ELSE {EMPTY, <<"/", "/", "e">>}
         \cup (IF sent.loc = "/gate" THEN {pressYes(v, sent.url)} ELSE {})

\* the age cookies of a visitor who confirmed before
ConfirmedAge(v) ==
    IF v \in FamP1 THEN {RoomA, RoomB}
    ELSE IF v \in FamG \cup {"src_app_1"} THEN {GLOBAL}
    ELSE {}

Request(h) ==
    [h |-> h, room |-> EMPTY, name |-> EMPTY, confirm |-> EMPTY, cookie |-> FALSE,
     tok |-> EMPTY, pass |-> EMPTY, over18 |-> FALSE, age |-> {}, file |-> NoFile,
     rand |-> EMPTY, rev |-> FALSE, next |-> EMPTY, now |-> 0]

NoUpload ==
    [ok |-> FALSE, at |-> 0, dir |-> EMPTY, existed |-> FALSE, name |-> EMPTY, size |-> 0,
     data |-> NoData]

\* what the client knows of its last upload: the file a successful upload request stored,
\* kept while the next request is made
uploadOf(D, F, r, out, last) ==
    LET writes == {c \in out.calls : c[1] = "write"}
    IN  IF /\ r.h = "upload"
           /\ out.resp.status \in {200, 302}
           /\ writes # {}
           /\ \A c \in out.calls : c[1] # "unlink"
        THEN LET path == (CHOOSE c \in writes : TRUE)[2]
             IN  [ok |-> TRUE, at |-> r.now, dir |-> dirname(path),
                  existed |-> dirname(path) \in D /\ dirname(dirname(path)) = DATA_DIR,
                  name |-> basename(path), size |-> r.file.size, data |-> r.file.data]
        ELSE IF last.ok /\ last.at + 1 = r.now THEN last
        ELSE NoUpload

NoDelete == [ok |-> FALSE, at |-> 0, h |-> "-", room |-> EMPTY, name |-> EMPTY]

\* what the client knows of its last delete: the route, room and name of a file-delete
\* or room-delete request that removed something, kept while the next request is made
deleteOf(D, F, r, out, last) ==
    IF r.h \in {"deleteFile", "deleteRoom"} /\ (out.files # F \/ out.dirs # D)
    THEN [ok |-> TRUE, at |-> r.now, h |-> r.h, room |-> r.room, name |-> r.name]
    ELSE IF last.ok /\ last.at + 1 = r.now THEN last
    ELSE NoDelete

\* the files of a server that has run before: two rooms, one upload in each
seedFile(v, rand) ==
    [Request("upload") EXCEPT !.file = Small, !.rand = rand, !.now = 0]

SeedDirs == {SLASH, dirnameOfScript, DATA_DIR}

SeedFiles == [q \in {ScriptFile} |-> [data |-> "script", size |-> 1, mtime |-> 0]]

NoListing == [st |-> "-", r |-> Request("-"), dir |-> EMPTY, entries |-> {}]

\* the directory the room page lists
listedDir(v, r) ==
    CASE v \in FamP1     -> roomDir(sanitizeRoom(r.room))
      [] v \in FamU      -> join(<<DATA_DIR, U_room(v, r.room)>>)
      [] v = "app_2"     -> join(<<DATA_DIR, toLowerCase(r.room)>>)
      [] v = "src_app_1" -> join(<<DATA_DIR, safeBase(r.room)>>)
      [] OTHER           -> join(<<DATA_DIR, r.room>>)

\* the entries of the directory read that are in the file system no more
unlinkedSince(fl, D, F) == {n \in fl.entries : join(<<fl.dir, n>>) \notin D \cup DOMAIN F}

\* The rest of a room page whose directory read returned fl.entries. A stat of
\* an entry that was unlinked since rejects or throws ENOENT:
\*  - listFiles of part_001 and app.js variant 1 catches it and returns [];
\*  - src/app.js variant 1 stats inside the comparator of files.sort, in an
\*    async handler without try: with two or more entries the handler's
\*    promise rejects, and the request is left unanswered or, where the
\*    router forwards rejections, answered 500; with one entry the
\*    comparator never runs and the page shows the entry.
renderListing(v, D, F, fl) ==
    LET gone  == unlinkedSince(fl, D, F)
        sts   == {Call(IF v = "src_app_1" THEN "mkdir" ELSE "exists", fl.dir),
                  Call("readdir", fl.dir)} \cup statCalls(fl.dir, fl.entries)
        page  == [Resp(200, "room", "-", NoData) EXCEPT !.links = roomLinks(v, fl.r, ADMIN_PASS)]
    IN  IF gone = {}
        THEN {Out(D, F, [page EXCEPT !.list = sortNewestFirst({entryOf(D, F, fl.dir, n) :
                                                                 n \in fl.entries})], sts)}
        ELSE IF v # "src_app_1" THEN {Out(D, F, page, sts)}
        ELSE IF Cardinality(fl.entries) >= 2
             THEN {Out(D, F, Resp(0, "unanswered", "-", NoData), sts),
                   Out(D, F, Resp(500, "error", "-", NoData), sts)}
        ELSE {Out(D, F, [page EXCEPT !.list = <<[name |-> CHOOSE n \in fl.entries : TRUE,
                                                 size |-> 0, mtime |-> 0]>>],
                  {Call("mkdir", fl.dir), Call("readdir", fl.dir)})}

PopulatedFiles(v) ==
    LET pa == join(<<roomDir(RoomA), filenameOf(v, seedFile(v, <<"m">>))>>)
        pb == join(<<roomDir(RoomB), filenameOf(v, seedFile(v, <<"n">>))>>)
    IN  [q \in {ScriptFile, pa, pb} |->
            IF q = ScriptFile THEN SeedFiles[q] ELSE [data |-> "old", size |-> 2, mtime |-> 0]]

Init ==
    /\ variant \in Variants
    /\ \/ dirs = SeedDirs /\ files = SeedFiles
       \/ dirs = SeedDirs \cup {roomDir(RoomA), roomDir(RoomB)} /\ files = PopulatedFiles(variant)
       \* a room of two uploads, in the variants whose room page awaits
       \* fs.promises calls while it lists the room
       \/ /\ variant \in FamP1 \cup {"src_app_1"}
          /\ dirs = SeedDirs \cup {roomDir(RoomA)}
          /\ files = [q \in {ScriptFile}
                              \cup {join(<<roomDir(RoomA), filenameOf(variant, seedFile(variant, i))>>) :
                                        i \in {<<"m">>, <<"n">>}} |->
                         IF q = ScriptFile THEN SeedFiles[q]
                         ELSE [data |-> "old", size |-> 2, mtime |-> 0]]
    /\ now = 1
    /\ jar \in {[admin |-> "-", age |-> {}], [admin |-> "-", age |-> ConfirmedAge(variant)]}
    /\ req = Request("-")
    /\ resp = Resp(0, "-", "-", NoData)
    /\ calls = {}
    /\ pre = [dirs |-> dirs, files |-> files, jar |-> jar, sent |-> EMPTY]
    /\ lastUpload = NoUpload
    /\ lastDelete = NoDelete
    /\ secretSent = FALSE
    /\ inFlight = NoListing

\* the server answers request r with out: what stays of it on the server and with the client
Serve(r, routed) ==
    /\ now <= MaxRequests
    /\ inFlight.st = "reading" => r.h \in {"deleteFile", "getRoom"}
    /\ inFlight' = IF inFlight.st # "reading" THEN NoListing
                   ELSE IF r.h = "getRoom" THEN [inFlight EXCEPT !.st = "rendered"]
                   ELSE inFlight
    /\ r.h \in Routes(variant)
    /\ \E out \in {Gated(variant, dirs, files, r, routed)} :
        /\ inFlight.st = "reading" /\ r.h = "deleteFile" =>
              unlinkedSince(inFlight, out.dirs, out.files) # {}
        /\ dirs' = out.dirs
        /\ files' = out.files
        /\ resp' = out.resp
        /\ calls' = out.calls
        /\ lastUpload' = uploadOf(dirs, files, r, out, lastUpload)
        /\ lastDelete' = deleteOf(dirs, files, r, out, lastDelete)
        /\ jar' = CASE r.h = "login" /\ out.resp.status \in {200, 302} ->
                         [jar EXCEPT !.admin = "1"]
                    [] r.h = "logout" -> [jar EXCEPT !.admin = "cleared"]
                    [] r.h = "ageOk" /\ out.resp.status = 302 ->
                         [jar EXCEPT !.age = @ \cup {IF variant \in FamP1
                                                     THEN sanitizeRoom(r.room) ELSE GLOBAL}]
                    [] OTHER -> jar
    /\ req' = r
    /\ pre' = [dirs |-> dirs, files |-> files, jar |-> jar, sent |-> IF r.h = "ageOk" THEN resp.url ELSE EMPTY]
    /\ now' = now + 1
    /\ secretSent' = (secretSent \/ trim(r.pass) = ADMIN_PASS \/ r.tok = ADMIN_PASS)
    /\ UNCHANGED variant

Base(h) == [Request(h) EXCEPT !.now = now]

Login ==
    \E p \in {ADMIN_PASS, <<" ">> \o ADMIN_PASS, <<"n">>} :
        \E r \in {[Base("login") EXCEPT !.pass = p]} :
            Serve(r, postAdmin(variant, dirs, files, r))

Logout ==
    \E r \in {Base("logout")} : Serve(r, OnlyResp(dirs, files, postLogout(variant)))

ConfirmAge ==
    \E room \in RoomInputs, next \in NextInputs(variant, resp) :
        \E r \in {[Base("ageOk") EXCEPT !.room = room, !.next = next]} :
            Serve(r, ageOk(variant, dirs, files, r))

CreateRoom ==
    \E room \in RoomInputs \cup {<<".", ".", "/", "b">>, EMPTY,
                                  [i \in 1..(MaxRoomLen + 1) |-> "a"]},
       c \in Credentials(variant), a \in AgeInputs(variant, jar),
       id \in (IF variant = "part_002" THEN RandIds ELSE {<<"x">>}) :
        \E r \in {[Base("createRoom") EXCEPT !.room = room, !.cookie = c.cookie,
                                             !.tok = c.tok, !.age = a, !.rand = id]} :
            Serve(r, createRoom(variant, dirs, files, r))

RoomPage ==
    \E room \in RoomInputs \cup (IF variant \in FamP1 THEN {RoomB} ELSE {}),
       c \in (IF variant = "app_2" THEN Credentials(variant)
              ELSE {[cookie |-> FALSE, tok |-> EMPTY]}),
       a \in AgeInputs(variant, jar),
       o \in (IF variant = "app_2" THEN BOOLEAN ELSE {FALSE}),
       \* fs.readdirSync(dir) of the unsorted listings: either directory order
       rev \in (IF variant \in FamG \cup {"part_002"} THEN BOOLEAN ELSE {FALSE}) :
        \E r \in {[Base("getRoom") EXCEPT !.room = room, !.cookie = c.cookie, !.tok = c.tok,
                                          !.age = a, !.over18 = o, !.rev = rev]} :
            /\ inFlight.st # "reading"
            /\ Serve(r, getRoom(variant, dirs, files, r))

\* A room page of an awaiting variant gets as far as its directory read.
ReadDirectory ==
    /\ variant \in FamP1 \cup {"src_app_1"}
    /\ inFlight.st # "reading"
    /\ now <= MaxRequests
    /\ \E room \in RoomInputs :
        \E r \in {[Base("getRoom") EXCEPT !.room = room, !.age = jar.age]} :
            \E read \in {IF variant = "src_app_1"
                         THEN readdir(dirs, files, listedDir(variant, r))
                         ELSE readdirFiles(dirs, files, listedDir(variant, r))} :
                \* the gate is passed, the room name is accepted, the directory exists
                /\ IF variant = "src_app_1"
                   THEN B1_ageGate(r) /\ safeBase(room) # EMPTY
                   ELSE sanitizeRoom(room) # EMPTY /\ sanitizeRoom(room) \in r.age
                /\ listedDir(variant, r) \in dirs
                /\ read # {}
                /\ inFlight' = [st |-> "reading", r |-> r, dir |-> listedDir(variant, r),
                                entries |-> read]
    /\ UNCHANGED <<variant, dirs, files, now, jar, req, resp, calls, pre, lastUpload,
                   lastDelete, secretSent>>

\* The stats of the awaiting room page run and the page is answered.
RenderListing ==
    /\ inFlight.st = "reading"
    /\ \E out \in renderListing(variant, dirs, files, inFlight) :
           Serve([inFlight.r EXCEPT !.now = now], out)

\* nanoid: an id that no stored name was built from yet. Where the name also
\* holds the clock, only an upload of the same clock can have used the id.
UploadIds(v, F, r) ==
    IF v = "part_002"
    THEN LET fresh == {i \in RandIds : \A f \in DOMAIN F :
                          basename(f) # P2_filename([r EXCEPT !.rand = i])}
         IN  IF fresh = {} THEN {<<"x">>} ELSE fresh
    ELSE IF v \notin FamG /\ r.now < now THEN {<<"y">>}
    ELSE {<<"x">>}

Upload ==
    \E room \in RoomInputs, f \in Payloads, a \in AgeInputs(variant, jar),
       \* two uploads handled at the same time read the same Date.now()
       t \in {now} \cup (IF req.h = "upload" /\ req.now + 1 = now THEN {req.now} ELSE {}) :
        \E r0 \in {[Request("upload") EXCEPT !.now = t, !.room = room, !.file = f, !.age = a]} :
            \E id \in UploadIds(variant, files, r0) :
                Serve([r0 EXCEPT !.rand = id], upload(variant, dirs, files, [r0 EXCEPT !.rand = id]))

ServeFile ==
    \E room \in RoomInputs, name \in NameInputs(files) :
        \E r \in {[Base("file") EXCEPT !.room = room, !.name = name, !.age = jar.age]} :
            Serve(r, serveFile(variant, dirs, files, r))

Download ==
    \E room \in RoomInputs, name \in NameInputs(files) :
        \E r \in {[Base("download") EXCEPT !.room = room, !.name = name, !.age = jar.age]} :
            Serve(r, download(variant, dirs, files, r))

DeleteFile ==
    \E room \in RoomInputs, name \in NameInputs(files)
                \cup (IF lastDelete.ok /\ lastDelete.h = "deleteFile"
                      THEN {lastDelete.name} ELSE {}),
       c \in Credentials(variant) :
        \E r \in {[Base("deleteFile") EXCEPT !.room = room, !.name = name,
                                             !.cookie = c.cookie, !.tok = c.tok,
                                             !.age = jar.age]} :
            Serve(r, deleteFile(variant, dirs, files, r))

DeleteRoom ==
    \E room \in RoomInputs, c \in Credentials(variant) :
        \E typed \in {EMPTY, room, toLowerCase(trim(room))} :
            \E r \in {[Base("deleteRoom") EXCEPT !.room = room, !.confirm = typed,
                                                 !.cookie = c.cookie, !.tok = c.tok,
                                                 !.age = jar.age]} :
                Serve(r, deleteRoom(variant, dirs, files, r))

Next ==
    \/ Login
    \/ Logout
    \/ ConfirmAge
    \/ CreateRoom
    \/ RoomPage
    \/ ReadDirectory
    \/ RenderListing
    \/ Upload
    \/ ServeFile
    \/ Download
    \/ DeleteFile
    \/ DeleteRoom

Spec == Init /\ [][Next]_vars

(***************************************************************************)
(* What the claims speak of                                                *)
(***************************************************************************)
\* the room name of the last request after trim and lower-casing
cleanRoom == toLowerCase(trim(req.room))

\* the entry called name directly inside the data root, as the name is written
entryIn(dir, name) == dir \o SLASH \o name

\* the last request left the file system as it was
FsUnchanged == dirs = pre.dirs /\ files = pre.files

\* the last request got past the age middleware
PastAgeGate == ageMiddleware(variant, req)

\* the last request went to a route that asks for the admin credential
AdminGated ==
    \/ req.h \in {"deleteFile", "deleteRoom"}
    \/ req.h = "createRoom" /\ variant \in StrictVariants

\* the last request carried what its variant takes for the admin credential
CarriesAdminCredential == req.cookie \/ req.tok = ADMIN_PASS

(***************************************************************************)
(* C1: on the upload, room-page, file-serving, download, file-delete and   *)
(* room-delete routes, a room segment that fails ^[a-z0-9-]{1,40}$ after   *)
(* trim and lower-casing never reaches a filesystem call.                  *)
(***************************************************************************)
C1_BadRoomNeverReachesFs ==
    (/\ req.h \in {"upload", "getRoom", "file", "download", "deleteFile", "deleteRoom"}
     /\ ~MatchesRoomPattern(cleanRoom))
        => calls = {}

(***************************************************************************)
(* C2: on the file-serving, download and file-delete routes, whatever the  *)
(* file-name segment (with "/" or ".." in it), the path that is read or    *)
(* unlinked lies inside the data root.                                     *)
(***************************************************************************)
C2_PathInsideDataRoot ==
    req.h \in {"file", "download", "deleteFile"}
        => \A c \in calls : c[1] \in {"read", "unlink", "rm"} => IsUnder(c[2], DATA_DIR)

(***************************************************************************)
(* C3: while no request has submitted the admin secret, no admin-gated     *)
(* route deletes a file, deletes a room or creates a room, whatever       *)
(* cookies, query parameters and body fields the client sends.             *)
(***************************************************************************)
C3_NoSecretNoAdminEffect ==
    (~secretSent /\ AdminGated) => FsUnchanged

Refused ==
    \/ resp.status \in {401, 403}
    \/ variant = "app_2" /\ resp.status = 302 /\ resp.loc = "/rooms"
    \/ ~PastAgeGate /\ resp = ageRefusal(variant, req)

C5_MismatchedConfirmationRejected ==
    (/\ req.h = "deleteRoom"
     /\ CarriesAdminCredential
     /\ PastAgeGate
     /\ trim(req.confirm) \notin {req.room, cleanRoom})
        => (resp.status = 400 /\ FsUnchanged)

\* the answer a room-creation route gives when it has created the room
CreatedAnswer ==
    \/ resp.status = 200 /\ resp.kind = "json"
    \/ resp.status = 302 /\ resp.loc \in {"/r/:room", "/admin", "/rooms?admin"}

(***************************************************************************)
(* C6: a room name submitted to the room-creation route that does not      *)
(* match the pattern is rejected and no directory is created, inside or    *)
(* outside the data root.                                                  *)
(***************************************************************************)
C6_BadNameCreatesNothing ==
    (/\ req.h = "createRoom"
     /\ variant # "part_002"
     /\ ~MatchesRoomPattern(cleanRoom))
        => (~CreatedAnswer /\ FsUnchanged)

\* path p is the entry e or lies below it
InOrBelow(p, e) == p = e \/ startsWith(p, e \o SLASH)

\* the last request was a room-delete that went through to fs.rm
RoomDeleted ==
    /\ req.h = "deleteRoom"
    /\ resp.status \in {200, 302}
    /\ \E c \in calls : c[1] = "rm"

(***************************************************************************)
(* C7: after a successful room-delete for room r, r and its files are      *)
(* gone, and every other room, every file of every other room and the data *)
(* root itself are unchanged, whatever the :room segment.                  *)
(***************************************************************************)
C7_RoomDeleteFrame ==
    RoomDeleted =>
        LET r == entryIn(DATA_DIR, cleanRoom) IN
        /\ DATA_DIR \in dirs
        /\ \A d \in dirs \cup DOMAIN files : ~InOrBelow(d, r)
        /\ \A d \in pre.dirs : ~InOrBelow(d, r) => d \in dirs
        /\ \A f \in DOMAIN pre.files :
              ~InOrBelow(f, r) => (f \in DOMAIN files /\ files[f] = pre.files[f])

(***************************************************************************)
(* C8: an admin file-delete for (room, name) removes at most the one entry *)
(* called name directly inside that room's directory; every other file of  *)
(* the room and every file of every other room is unchanged, whatever the  *)
(* :name segment.                                                          *)
(***************************************************************************)
C8_FileDeleteFrame ==
    (req.h = "deleteFile" /\ CarriesAdminCredential) =>
        /\ dirs = pre.dirs
        /\ \A f \in DOMAIN pre.files :
              f # entryIn(entryIn(DATA_DIR, cleanRoom), req.name)
                  => (f \in DOMAIN files /\ files[f] = pre.files[f])

\* the rooms: the directories directly inside the data root
Rooms(D) == {d \in D : d # SLASH /\ dirname(d) = DATA_DIR}

(***************************************************************************)
(* C9: a room directory comes into existence only through the              *)
(* room-creation route: uploading to, or viewing, a room that was never    *)
(* created does not create it.                                             *)
(***************************************************************************)
C9_OnlyCreationMakesRooms ==
    req.h \in {"upload", "getRoom"} => Rooms(dirs) \subseteq Rooms(pre.dirs)

\* the request before the last one uploaded a file into a room that was there
JustUploaded == lastUpload.ok /\ lastUpload.at + 1 = req.now /\ lastUpload.existed

\* the last request names the room and the file of that upload
OfUploadRoom == req.room = basename(lastUpload.dir)

PageRequest(room) ==
    [Request("getRoom") EXCEPT !.room = room, !.age = {RoomA, RoomB, GLOBAL},
                               !.over18 = TRUE, !.now = now]

\* the names the room page of room shows, now and before the last request
listedNow(room) ==
    LET l == getRoom(variant, dirs, files, PageRequest(room)).resp.list
    IN  {l[i].name : i \in 1..Len(l)}

listedBefore(room) ==
    LET l == getRoom(variant, pre.dirs, pre.files, PageRequest(room)).resp.list
    IN  {l[i].name : i \in 1..Len(l)}

\* the last request stored an upload in the room directory d
UploadedInto(d) ==
    req.h = "upload" /\ lastUpload.ok /\ lastUpload.at = req.now /\ lastUpload.dir = d

\* the last request was a file delete carrying the admin credential, let
\* through by the age gate and answered with a redirect or an ok acknowledgment
FileDeleteDone ==
    /\ req.h = "deleteFile"
    /\ PastAgeGate
    /\ CarriesAdminCredential
    /\ resp.status \in {200, 302}

(***************************************************************************)
(* C11: the listing of a room holds exactly the files uploaded and not yet *)
(* deleted: a room that the last request created lists nothing, a stored   *)
(* upload adds exactly its own entry, and an admin file delete removes     *)
(* exactly the entry it names.                                             *)
(***************************************************************************)
C11_ListingTracksUploads ==
    \A d \in {e \in Rooms(dirs) : MatchesRoomPattern(basename(e))} :
        LET room == basename(d) IN
        /\ (req.h = "createRoom" /\ d \notin pre.dirs) => listedNow(room) = {}
        /\ UploadedInto(d) =>
              listedNow(room) = listedBefore(room) \cup {lastUpload.name}
        /\ (FileDeleteDone /\ req.room = room) =>
              listedNow(room) = listedBefore(room) \ {req.name}

(***************************************************************************)
(* C12: the file listing rendered on the room page is ordered newest-first *)
(* by modification time.                                                   *)
(***************************************************************************)
C12_ListingNewestFirst ==
    (req.h = "getRoom" /\ MatchesRoomPattern(req.room) /\ resp.kind = "room") =>
        \A i, j \in 1..Len(resp.list) :
            i < j => resp.list[i].mtime >= resp.list[j].mtime

\* a file name in one piece: not empty, no separator, neither "." nor ".."
PlainName(n) == n # EMPTY /\ n # DOT /\ n # DOTDOT /\ \A i \in 1..Len(n) : n[i] # "/"

\* the last request was an admin file delete of a plain name in a well-formed
\* room, let through by the age gate
AdminFileDelete ==
    /\ req.h = "deleteFile"
    /\ PastAgeGate
    /\ CarriesAdminCredential
    /\ MatchesRoomPattern(req.room)
    /\ PlainName(req.name)

\* the file the last request names, as a path of the room
namedFile == entryIn(entryIn(DATA_DIR, req.room), req.name)

\* the answer is the success of the variant: a redirect or an ok acknowledgment
AnsweredSuccess == resp.status \in {200, 302} /\ resp.kind \in {"redirect", "json"}

(***************************************************************************)
(* C13: file delete is idempotent.  Every admin file delete, the first     *)
(* one and its repetition for the same room and name alike, is answered    *)
(* with the success response, and a delete of a name that is absent leaves *)
(* the store unchanged.                                                    *)
(***************************************************************************)
C13_FileDeleteIdempotent ==
    AdminFileDelete =>
        /\ AnsweredSuccess
        /\ ~existsSync(pre.dirs, pre.files, namedFile) => FsUnchanged

\* the second of two consecutive deletes of one file: the first removed it
C13_Witness ==
    /\ AdminFileDelete
    /\ lastDelete.ok
    /\ lastDelete.h = "deleteFile"
    /\ lastDelete.at + 1 = req.now
    /\ lastDelete.room = req.room
    /\ lastDelete.name = req.name
    /\ AnsweredSuccess
    /\ FsUnchanged

\* the last request was an admin room delete of a well-formed room with the room
\* name typed as confirmation, let through by the age gate
AdminRoomDelete ==
    /\ req.h = "deleteRoom"
    /\ PastAgeGate
    /\ CarriesAdminCredential
    /\ MatchesRoomPattern(req.room)
    /\ req.confirm = req.room

(***************************************************************************)
(* C14: an admin room delete, with matching confirmation, of a room that   *)
(* is already deleted is a no-op: the answer is not a 500 and the store    *)
(* is unchanged.                                                           *)
(***************************************************************************)
C14_RoomDeleteOfDeletedRoomIsNoOp ==
    (AdminRoomDelete /\ entryIn(DATA_DIR, req.room) \notin pre.dirs) =>
        /\ resp.status # 500
        /\ FsUnchanged

\* the second of two consecutive deletes of one room: the first removed it
C14_Witness ==
    /\ AdminRoomDelete
    /\ lastDelete.ok
    /\ lastDelete.h = "deleteRoom"
    /\ lastDelete.at + 1 = req.now
    /\ lastDelete.room = req.room
    /\ entryIn(DATA_DIR, req.room) \notin pre.dirs
    /\ AnsweredSuccess
    /\ FsUnchanged

\* the last request was an authorized create-room request for a well-formed name,
\* let through by the age gate (POST /new of part_002 takes no name)
AuthorizedCreate ==
    /\ req.h = "createRoom"
    /\ variant # "part_002"
    /\ PastAgeGate
    /\ variant \in StrictVariants => CarriesAdminCredential
    /\ MatchesRoomPattern(req.room)

(***************************************************************************)
(* C15: room creation is idempotent.  An authorized create-room request    *)
(* for a valid name whose room already exists is answered with the success *)
(* response and leaves the room and its files unchanged.                   *)
(***************************************************************************)
C15_CreateRoomIdempotent ==
    (AuthorizedCreate /\ entryIn(DATA_DIR, req.room) \in pre.dirs) =>
        /\ AnsweredSuccess
        /\ FsUnchanged

\* the last request asked for the page of a well-formed room whose directory did
\* not exist, and was answered by the page handler, not by an age gate
PageOfMissingRoom ==
    /\ req.h = "getRoom"
    /\ MatchesRoomPattern(req.room)
    /\ entryIn(DATA_DIR, req.room) \notin pre.dirs
    /\ PastAgeGate
    /\ resp.kind # "age"

(***************************************************************************)
(* C16: a GET of the room page for a room whose directory does not exist   *)
(* is answered, once past the age gate, with 404 and never with a gallery. *)
(***************************************************************************)
C16_MissingRoomIs404 ==
    PageOfMissingRoom => (resp.status = 404 /\ resp.kind # "room")

\* the last request was an upload without a file part, let through by the age gate
UploadWithoutFile == req.h = "upload" /\ ~hasFile(req) /\ PastAgeGate

(***************************************************************************)
(* C17: an upload request that contains no file part is answered with 400  *)
(* and adds no file to any room.                                           *)
(***************************************************************************)
C17_NoFilePartIs400 ==
    UploadWithoutFile => (resp.status = 400 /\ files = pre.files)

\* the last request carried no age confirmation: neither the cookie of its room,
\* nor the site-wide cookie, nor ?over18=1
AgeUnconfirmed ==
    /\ sanitizeRoom(req.room) \notin req.age
    /\ GLOBAL \notin req.age
    /\ ~req.over18

(***************************************************************************)
(* C18: a GET of a room page by a visitor whose age confirmation is absent *)
(* never returns the room's file listing; the answer is the age            *)
(* interstitial, a redirect to it, or a refusal.                           *)
(***************************************************************************)
C18_NoListingWithoutAgeConfirmation ==
    (req.h = "getRoom" /\ AgeUnconfirmed) => resp.kind # "room"

\* the password of the last request is the one its variant takes: part_001 and
\* app.js trim it before the comparison, part_000 and app.js variants 3 and 4 do not
PasswordAccepted ==
    IF variant \in FamU THEN req.pass = ADMIN_PASS ELSE trim(req.pass) = ADMIN_PASS

\* the last request carried the admin cookie exactly if the client's jar held it
HonestClient == req.cookie = (pre.jar.admin = "1")

\* what login, logout and the admin-gated routes do with the admin cookie, when matches
\* says that the password of a login is the right one
LoginLogoutState(matches) ==
    /\ (req.h = "login" /\ ~matches) =>
          (resp.status = 401 /\ jar.admin = pre.jar.admin)
    /\ (req.h = "login" /\ matches) => jar.admin = "1"
    /\ req.h = "logout" => jar.admin = "cleared"
    /\ (AdminGated /\ variant \in CookieVariants /\ HonestClient /\ pre.jar.admin # "1") =>
          (resp.status \in {401, 403} /\ FsUnchanged)

\* the admin cookie comes into the jar with a successful login only
CookieOnlyByLogin ==
    (jar.admin # "1" /\ jar'.admin = "1") => (req'.h = "login" /\ resp'.status \in {200, 302})

LimitVariants == FamP1 \cup FamG \cup {"part_002"}

LimitOf == IF variant \in FamG THEN MAX_UPLOAD_MB ELSE MAX_FILE_MB

\* the last request uploaded, to a well-formed room and past the age gate, a file
\* larger than the limit of its variant
OversizeUpload ==
    /\ req.h = "upload"
    /\ variant \in LimitVariants
    /\ PastAgeGate
    /\ MatchesRoomPattern(req.room)
    /\ hasFile(req)
    /\ req.file.size > LimitOf

(***************************************************************************)
(* C20: in a variant with a maximum upload size, an upload larger than the *)
(* limit is rejected with 400 or 413, and afterwards the room holds        *)
(* neither the file nor a truncated part of it.                            *)
(***************************************************************************)
C20_OversizeUploadRejected ==
    OversizeUpload =>
        /\ resp.status \in {400, 413}
        /\ \A f \in DOMAIN files : f \in DOMAIN pre.files /\ files[f] = pre.files[f]

\* the variants whose age gate answers with a redirect to an interstitial
RedirectGateVariants == FamG \cup {"src_app_1"}

\* the last request confirmed the age with the next parameter that the redirect of
\* the request before it carried
ConfirmedFromGate ==
    /\ req.h = "ageOk"
    /\ variant \in RedirectGateVariants
    /\ \/ startsWith(pre.sent, <<"/", "g", "a", "t", "e", "?", "n", "e", "x", "t", "=">>)
       \/ startsWith(pre.sent, <<"/", "a", "g", "e", "?", "r", "e", "d", "i", "r", "e", "c", "t", "=">>)
    /\ req.next = pressYes(variant, pre.sent)

UploadStored == req.h = "upload" /\ lastUpload.ok /\ lastUpload.at = req.now

StoredPath == lastUpload.dir \o SLASH \o lastUpload.name

\* C22: an upload that stores a file creates a directory entry that did not
\* exist before it (so two uploads to one room, also at the same time and under
\* the same original name, give two entries), and after any upload request
\* every file that existed before it is still there with the same content.
C22_UploadsNeverCollide ==
    /\ UploadStored => StoredPath \notin DOMAIN pre.files
    /\ req.h = "upload" =>
          \A f \in DOMAIN pre.files : f \in DOMAIN files /\ files[f].data = pre.files[f].data

\* The last request was a room page, and a file of the room was unlinked
\* between its directory read and its stats.
ListingRaced ==
    /\ inFlight.st = "rendered"
    /\ unlinkedSince(inFlight, dirs, files) # {}

\* C23: a room page that interleaves with a file delete in its room is
\* answered with the rendered page: no error status, no request left unanswered.
C23_RacedPageStillAnswered ==
    ListingRaced => resp.status = 200 /\ resp.kind = "room"

\* C27: when listFiles runs while one file of the room is deleted, the listing
\* it returns still names every file of the room that was there from its
\* directory read to its end; only the deleted file may be missing.
C27_RacedListingKeepsOtherFiles ==
    (ListingRaced /\ variant \in FamP1) =>
        \A n \in inFlight.entries \ unlinkedSince(inFlight, dirs, files) :
            \E i \in DOMAIN resp.list : resp.list[i].name = n

\* the response redirects to a URL whose query string holds over18=1
RedirectsWithOver18 ==
    /\ resp.kind = "redirect"
    /\ \/ resp.loc = "/room/:room?over18=1"
       \/ variant = "app_2" /\ resp.loc = "/room/:room?admin"

\* C24: only the visitor's own confirmation establishes the age-confirmed
\* state: a request other than the confirmation leaves the age cookies as they
\* were and is not answered with a redirect to a URL that carries over18=1.
C24_OnlyConfirmationConfirms ==
    req.h # "ageOk" =>
        /\ jar.age = pre.jar.age
        /\ ~RedirectsWithOver18

PerRoomGateVariants == FamP1

\* C25: in the per-room variants a confirmation adds the age cookie of the
\* room it names and no other, other requests leave the age cookies alone, and
\* the page of a room is rendered only when the age cookie of that very room
\* is set; so confirming room a never opens room b.
C25_ConfirmationIsPerRoom ==
    variant \in PerRoomGateVariants =>
        /\ jar.age \ pre.jar.age \subseteq
              (IF req.h = "ageOk" THEN {sanitizeRoom(req.room)} ELSE {})
        /\ (req.h = "getRoom" /\ resp.kind = "room") => sanitizeRoom(req.room) \in jar.age

\* Room a was confirmed, room b was not, and the page of b is asked for: the
\* age view is sent.
C25_Witness ==
    /\ variant \in PerRoomGateVariants
    /\ jar.age = {RoomA}
    /\ req.h = "getRoom" /\ req.room = RoomB
    /\ roomDir(RoomB) \in dirs
    /\ resp.kind = "age"

\* the names the last room page lists
ListedNames == {resp.list[i].name : i \in DOMAIN resp.list}

\* C26: the listing of a room page names only regular files directly inside
\* the room directory, no subdirectory; and the listing functions return the
\* empty sequence for a room whose directory is missing.
C26_ListsRegularFilesOnly ==
    /\ (req.h = "getRoom" /\ resp.kind = "room" /\ ~ListingRaced) =>
          \A n \in ListedNames : join(<<listedDir(variant, req), n>>) \in DOMAIN files
    /\ \A room \in {RoomA, RoomB} :
          roomDir(room) \notin dirs =>
              /\ listFiles(dirs, files, room) = << >>
              /\ U_listFiles(dirs, files, room) = << >>

\* another value of the configured secret
OtherSecret == <<"q">>

\* the last request carried no admin credential at all
NoCredential == req.tok = EMPTY /\ ~req.cookie /\ req.pass = EMPTY

\* C28: the room view sent to a request without admin credential is the same
\* whatever the configured secret is: none of its links is built from ADMIN_PASS.
C28_PageIndependentOfSecret ==
    (req.h = "getRoom" /\ resp.kind = "room" /\ NoCredential) =>
        resp.links = roomLinks(variant, req, OtherSecret)

\* u is a path of this application: it starts with one slash; a second slash
\* makes it a scheme-relative URL of another host
LocalPath(u) == Len(u) >= 1 /\ u[1] = "/" /\ (Len(u) >= 2 => u[2] # "/")

\* C29: the confirmation of the redirect gates answers with a Location that is
\* a path of this application, whatever redirect or next parameter it was sent.
C29_ConfirmationRedirectsLocally ==
    (variant \in RedirectGateVariants /\ req.h = "ageOk" /\ resp.status = 302) =>
        LocalPath(resp.url)

============================================================================
